---- MODULE Spec2Model ----
(***************************************************************************)
(* migrate_to_db.py: the one-shot import of wallets.txt and                *)
(* transactions.txt (one JSON object per line) into the wallets and        *)
(* transactions tables.  The job is create_all, migrate_wallets,           *)
(* migrate_transactions, summary; the operator may run it again.           *)
(*                                                                         *)
(* Numbers: a JSON number or numeric string carries an integer n; a        *)
(* "dec" number carries tenths (2505 is 250.5).  float() results are kept  *)
(* in tenths, int() results in units, so the two coercions differ.         *)
(* Timestamps are instants (integers); an ISO-8601 string carries the      *)
(* instant it denotes.                                                     *)
(***************************************************************************)
EXTENDS Integers, Sequences, FiniteSets, TLC

\* Bounds of the model.
MaxLines == 3   \* lines of wallets.txt plus lines of transactions.txt
MaxRuns == 2    \* times the operator runs the job

\* datetime.utcnow() during run r is ImportEpoch + r: the import time of the
\* run, later than every instant of the source files.
ImportEpoch == 100

----------------------------------------------------------------------------
\* JSON values of a field of a line.

Absent == [k |-> "absent", n |-> 0]     \* the key is not in the object
Null == [k |-> "null", n |-> 0]         \* null
Empty == [k |-> "empty", n |-> 0]       \* ""
Num(n) == [k |-> "num", n |-> n]        \* the integer n
Dec(n) == [k |-> "dec", n |-> n]        \* the number n/10, written with a decimal point
NumStr(n) == [k |-> "numstr", n |-> n]  \* the string of the decimal digits of n
IsoStr(n) == [k |-> "isostr", n |-> n]  \* the ISO-8601 string of instant n
Text(n) == [k |-> "text", n |-> n]      \* the n-th other string ("TXN1", ...)

\* dict.get(key, default): the default only when the key is absent; a null
\* that is present is returned as None.
DictGet(v, default) ==
    IF v.k = "absent" THEN default ELSE v

\* Python truthiness of data.get(key).
Truthy(v) ==
    /\ v.k \notin {"absent", "null", "empty"}
    /\ ~(v.k \in {"num", "dec"} /\ v.n = 0)

Ok(n) == [exc |-> "none", val |-> n]
Raise(e) == [exc |-> e, val |-> 0]

TruncTenths(n) ==
    IF n >= 0 THEN n \div 10 ELSE -((-n) \div 10)

\* int(x): numbers truncate toward zero, digit strings parse, other strings
\* raise ValueError, None raises TypeError.
PyInt(v) ==
    CASE v.k = "num" -> Ok(v.n)
      [] v.k = "dec" -> Ok(TruncTenths(v.n))
      [] v.k = "numstr" -> Ok(v.n)
      [] v.k \in {"text", "empty", "isostr"} -> Raise("ValueError")
      [] OTHER -> Raise("TypeError")

\* float(x), in tenths.
PyFloat(v) ==
    CASE v.k = "num" -> Ok(10 * v.n)
      [] v.k = "dec" -> Ok(v.n)
      [] v.k = "numstr" -> Ok(10 * v.n)
      [] v.k \in {"text", "empty", "isostr"} -> Raise("ValueError")
      [] OTHER -> Raise("TypeError")

\* datetime.fromisoformat(x).
FromIsoFormat(v) ==
    CASE v.k = "isostr" -> Ok(v.n)
      [] v.k \in {"text", "numstr", "empty"} -> Raise("ValueError")
      [] OTHER -> Raise("TypeError")

----------------------------------------------------------------------------
\* The lines of the two source files.

BlankLine ==
    [kind |-> "blank", id |-> Absent, user_id |-> Absent, balance |-> Absent,
     amount |-> Absent, created_at |-> Absent, last_updated |-> Absent,
     timestamp |-> Absent, method |-> Absent, status |-> Absent]

\* A line that is not JSON.
GarbageLine ==
    [BlankLine EXCEPT !.kind = "garbage"]

\* {"user_id": u, "balance": b, "created_at": c, "last_updated": l}
WL(u, b, c, l) ==
    [BlankLine EXCEPT !.kind = "object", !.user_id = u, !.balance = b,
                      !.created_at = c, !.last_updated = l]

\* {"id": t, "user_id": u, "amount": a, "timestamp": s, "method": m}
TL(t, u, a, s, m) ==
    [BlankLine EXCEPT !.kind = "object", !.id = t, !.user_id = u, !.amount = a,
                      !.timestamp = s, !.method = m]

\* The ids of the User table: read, never written, by the job.
Users == {3, 7}

WalletLines ==
    { BlankLine,
      WL(Num(7), Dec(2505), Absent, Absent),
      WL(NumStr(7), NumStr(40), IsoStr(11), Text(1)),
      WL(Num(3), Absent, Num(5), IsoStr(12)),
      WL(Absent, Num(1), Absent, Absent),
      WL(Null, Num(1), Absent, Absent),
      WL(Num(3), Text(1), Absent, Absent) }

TxnLines ==
    { GarbageLine,
      TL(Text(1), Num(3), Num(-50), Absent, Absent),
      TL(Text(1), Num(7), NumStr(20), IsoStr(11), Text(2)),
      TL(Text(1), NumStr(3), Dec(15), Text(9), Absent),
      TL(Absent, Num(9), Num(1), Absent, Absent),
      TL(Text(2), Num(7), Null, IsoStr(12), Absent) }

\* A file that is absent, or a file of n lines.
MissingFile == [exists |-> FALSE, lines |-> << >>]

FilesOf(Lines, n) ==
    {[exists |-> TRUE, lines |-> l] : l \in [1..n -> Lines]}

\* Rows the store may hold before the first run.
SeedWallets ==
    << [tbl |-> "wallets", user_id |-> 7, balance |-> 1000,
        created_at |-> 5, last_updated |-> 6] >>

MethodDefault == Text(90)   \* 'wallet'
StatusDefault == Text(91)   \* 'success'

SeedTransactions ==
    << [tbl |-> "transactions", transaction_id |-> Text(1), user_id |-> 7,
        amount |-> 200, method |-> MethodDefault, status |-> StatusDefault,
        timestamp |-> 5] >>

----------------------------------------------------------------------------
\* The work done for one line.

NoRow == [tbl |-> "none"]

\* The rows a query of the session on one table sees: the committed rows and
\* the rows of that table added to the session, which the query flushes first.
QueryView(table, name, sess) ==
    table \o SelectSeq(sess, LAMBDA r : r.tbl = name)

\* Mutant: the existence check never finds a wallet.
WalletExistingNever(view, user_id) ==
    FALSE

\* Wallet.query.filter_by(user_id=user_id).first() is not None
WalletExisting(view, user_id) ==
    \E i \in 1..Len(view) : view[i].user_id = user_id

\* Mutant: the existence check never finds a transaction.
TxnExistingNever(view, txn_id, user_id) ==
    FALSE

\* Mutant: the existence check is keyed on the transaction id alone.
TxnExistingByIdOnly(view, txn_id, user_id) ==
    \E i \in 1..Len(view) : view[i].transaction_id = txn_id

\* Transaction.query.filter_by(transaction_id=.., user_id=..).first() is not None
TxnExisting(view, txn_id, user_id) ==
    \E i \in 1..Len(view) :
        view[i].transaction_id = txn_id /\ view[i].user_id = user_id

\* Mutant: only ValueError is caught around fromisoformat.
ParseTimestampValueErrorOnly(v, now) ==
    IF ~Truthy(v) THEN Ok(now)
    ELSE IF FromIsoFormat(v).exc \in {"ValueError"} THEN Ok(now)
    ELSE FromIsoFormat(v)

\* One timestamp field: the parsed value, or utcnow() when the field is
\* falsy or fromisoformat raises ValueError or TypeError.
ParseTimestamp(v, now) ==
    IF ~Truthy(v) THEN Ok(now)
    ELSE IF FromIsoFormat(v).exc \in {"ValueError", "TypeError"} THEN Ok(now)
    ELSE FromIsoFormat(v)

\* except (json.JSONDecodeError, ValueError): print [ERROR], continue;
\* any other exception leaves the loop and the function.
WalletsExcept(exc) ==
    IF exc \in {"JSONDecodeError", "ValueError"}
    THEN [tag |-> "ERROR", row |-> NoRow]
    ELSE [tag |-> "RAISE", row |-> NoRow]

TxnsExcept(exc) ==
    IF exc \in {"JSONDecodeError", "ValueError"}
    THEN [tag |-> "ERROR", row |-> NoRow]
    ELSE [tag |-> "RAISE", row |-> NoRow]

\* The body of the loop of migrate_wallets for one line.
WalletOutcome(line, valid, view, now) ==
    IF line.kind = "blank" THEN [tag |-> "BLANK", row |-> NoRow]
    ELSE IF line.kind = "garbage" THEN WalletsExcept("JSONDecodeError")
    ELSE
      LET uid == PyInt(DictGet(line.user_id, Num(0)))
          ca == ParseTimestamp(line.created_at, now)
          lu == ParseTimestamp(line.last_updated, now)
          bal == PyFloat(DictGet(line.balance, Dec(0)))
      IN  IF uid.exc # "none" THEN WalletsExcept(uid.exc)
          ELSE IF uid.val \notin valid THEN [tag |-> "SKIP_USER", row |-> NoRow]
          ELSE IF WalletExisting(view, uid.val)
               THEN [tag |-> "SKIP_EXISTS", row |-> NoRow]
          ELSE IF ca.exc # "none" THEN WalletsExcept(ca.exc)
          ELSE IF lu.exc # "none" THEN WalletsExcept(lu.exc)
          ELSE IF bal.exc # "none" THEN WalletsExcept(bal.exc)
          ELSE [tag |-> "OK",
                row |-> [tbl |-> "wallets", user_id |-> uid.val,
                         balance |-> bal.val, created_at |-> ca.val,
                         last_updated |-> lu.val]]

\* The body of the loop of migrate_transactions for one line.
TxnOutcome(line, valid, view, now) ==
    IF line.kind = "blank" THEN [tag |-> "BLANK", row |-> NoRow]
    ELSE IF line.kind = "garbage" THEN TxnsExcept("JSONDecodeError")
    ELSE
      LET txn_id == DictGet(line.id, Empty)
          uid == PyInt(DictGet(line.user_id, Num(0)))
          ts == ParseTimestamp(line.timestamp, now)
          amt == PyFloat(DictGet(line.amount, Num(0)))
      IN  IF uid.exc # "none" THEN TxnsExcept(uid.exc)
          ELSE IF uid.val \notin valid THEN [tag |-> "SKIP_USER", row |-> NoRow]
          ELSE IF TxnExisting(view, txn_id, uid.val)
               THEN [tag |-> "SKIP_EXISTS", row |-> NoRow]
          ELSE IF ts.exc # "none" THEN TxnsExcept(ts.exc)
          ELSE IF amt.exc # "none" THEN TxnsExcept(amt.exc)
          ELSE [tag |-> "OK",
                row |-> [tbl |-> "transactions", transaction_id |-> txn_id,
                         user_id |-> uid.val, amount |-> amt.val,
                         method |-> DictGet(line.method, MethodDefault),
                         status |-> DictGet(line.status, StatusDefault),
                         timestamp |-> ts.val]]

\* Mutant: the duplicate skip counts as skipped too.
SkippedAfterAnySkip(tag, skipped) ==
    IF tag \in {"SKIP_USER", "SKIP_EXISTS"} THEN skipped + 1 ELSE skipped

\* skipped += 1 happens in the user-not-found branch only.
SkippedAfter(tag, skipped) ==
    IF tag = "SKIP_USER" THEN skipped + 1 ELSE skipped

\* count += 1 follows db.session.add.
CountAfter(tag, count) ==
    IF tag = "OK" THEN count + 1 ELSE count

\* db.session.add(row)
SessionAdd(sess, outcome) ==
    IF outcome.tag = "OK" THEN Append(sess, outcome.row) ELSE sess

\* db.session.commit(): every row of the session goes to its table.
SessionCommit(tables, sess) ==
    [wallets |-> tables.wallets \o SelectSeq(sess, LAMBDA r : r.tbl = "wallets"),
     transactions |->
         tables.transactions \o SelectSeq(sess, LAMBDA r : r.tbl = "transactions"),
     session |-> << >>]

\* db.session.rollback(): the rows of the session are dropped.
SessionRollback(tables, sess) ==
    [wallets |-> tables.wallets, transactions |-> tables.transactions,
     session |-> << >>]

\* Mutant: the failed commit is logged and the session is not rolled back.
WalletsCommitNoRollback(tables, sess, ok) ==
    IF ok THEN SessionCommit(tables, sess)
    ELSE [wallets |-> tables.wallets, transactions |-> tables.transactions,
          session |-> sess]

\* Mutant: migrate_wallets does not commit; its rows wait in the session.
WalletsCommitDeferred(tables, sess, ok) ==
    [wallets |-> tables.wallets, transactions |-> tables.transactions,
     session |-> sess]

\* try: commit / except Exception: rollback, at the end of migrate_wallets.
WalletsCommitResult(tables, sess, ok) ==
    IF ok THEN SessionCommit(tables, sess) ELSE SessionRollback(tables, sess)

\* try: commit / except Exception: rollback, at the end of migrate_transactions.
TransactionsCommitResult(tables, sess, ok) ==
    IF ok THEN SessionCommit(tables, sess) ELSE SessionRollback(tables, sess)

\* Mutant: the count is reset when the commit fails.
ReturnCountZeroOnFailure(count, ok) ==
    IF ok THEN count ELSE 0

\* return count, after either outcome of the commit.
ReturnCount(count, ok) ==
    count

----------------------------------------------------------------------------
\* The state of the job.

VARIABLES
    wallet_file,      \* wallets.txt
    txn_file,         \* transactions.txt
    wallets,          \* the committed rows of the wallets table
    transactions,     \* the committed rows of the transactions table
    session,          \* db.session: the rows added and not yet committed
    pc,               \* where the job is
    run,              \* which run of the job this is
    pos,              \* the line the running loop reads next
    valid_user_ids,   \* local of the running sub-procedure
    count,            \* local of the running sub-procedure
    skipped,          \* local of the running sub-procedure
    wallet_count,     \* local of the main block
    txn_count,        \* local of the main block
    log,              \* the tag of the line printed last
    summary,          \* the two counts of the summary block, once printed
    user_queries,     \* User.query.all() calls of this run
    staged_from,      \* history: the line each row of the session came from
    before,           \* history: the tables when the running sub-procedure began
    commits,          \* history: how each commit of this run ended
    prev              \* history: the tables when this run began; whether no
                      \* commit of the run before it failed (committed), and
                      \* whether that run also reached its summary (clean)

vars ==
    << wallet_file, txn_file, wallets, transactions, session, pc, run, pos,
       valid_user_ids, count, skipped, wallet_count, txn_count, log, summary,
       user_queries, staged_from, before, commits, prev >>

\* A local that has not been assigned yet.
Unassigned == -1

UtcNow == ImportEpoch + run

NoCommits == [wallets |-> "none", transactions |-> "none"]

Tables == [wallets |-> wallets, transactions |-> transactions]

Init ==
    /\ \E nw \in 0..MaxLines :
          /\ wallet_file \in (IF nw = 0 THEN {MissingFile} ELSE {})
                                \cup FilesOf(WalletLines, nw)
          /\ \E nt \in 0..(MaxLines - nw) :
                txn_file \in (IF nt = 0 THEN {MissingFile} ELSE {})
                                \cup FilesOf(TxnLines, nt)
    /\ \E seeded \in BOOLEAN :
          /\ wallets = IF seeded THEN SeedWallets ELSE << >>
          /\ transactions = IF seeded THEN SeedTransactions ELSE << >>
    /\ session = << >>
    /\ pc = "Start"
    /\ run = 1
    /\ pos = 0
    /\ valid_user_ids = {}
    /\ count = Unassigned
    /\ skipped = Unassigned
    /\ wallet_count = Unassigned
    /\ txn_count = Unassigned
    /\ log = "none"
    /\ summary = << >>
    /\ user_queries = 0
    /\ staged_from = << >>
    /\ before = Tables
    /\ commits = NoCommits
    /\ prev = [clean |-> FALSE, committed |-> FALSE,
               wallets |-> wallets, transactions |-> transactions]

inputs == << wallet_file, txn_file >>
locals == << valid_user_ids, count, skipped >>
history == << staged_from, before, commits, prev >>

\* db.create_all(): the tables exist; no row changes.
CreateAll ==
    /\ pc = "Start"
    /\ pc' = "SchemaReady"
    /\ log' = "TABLES_OK"
    /\ UNCHANGED << inputs, summary, wallets, transactions, session, run,
                    pos, locals,
                    wallet_count, txn_count, user_queries, history >>

\* migrate_wallets, wallets.txt absent: return 0.
MigrateWalletsMissing ==
    /\ pc = "SchemaReady"
    /\ ~wallet_file.exists
    /\ wallet_count' = 0
    /\ pc' = "WalletsDone"
    /\ log' = "SKIP_FILE"
    /\ before' = Tables
    /\ UNCHANGED << inputs, summary, wallets, transactions, session, run,
                    pos, locals,
                    txn_count, user_queries, staged_from, commits, prev >>

\* migrate_wallets up to the loop: the counters, the user ids, the file.
MigrateWalletsOpen ==
    /\ pc = "SchemaReady"
    /\ wallet_file.exists
    /\ count' = 0
    /\ skipped' = 0
    /\ valid_user_ids' = Users
    /\ user_queries' = user_queries + 1
    /\ pos' = 1
    /\ pc' = "WalletsLoop"
    /\ log' = "MIGRATING"
    /\ staged_from' = << >>
    /\ before' = Tables
    /\ UNCHANGED << inputs, summary, wallets, transactions, session, run,
                    wallet_count,
                    txn_count, commits, prev >>

\* One line of wallets.txt.
WalletLine ==
    /\ pc = "WalletsLoop"
    /\ pos <= Len(wallet_file.lines)
    /\ LET outcome == WalletOutcome(wallet_file.lines[pos], valid_user_ids,
                                    QueryView(wallets, "wallets", session), UtcNow)
       IN  /\ log' = outcome.tag
           /\ IF outcome.tag = "RAISE"
              THEN /\ pc' = "Crashed"
                   /\ session' = << >>
                   /\ UNCHANGED << pos, count, skipped, staged_from >>
              ELSE /\ pc' = pc
                   /\ pos' = pos + 1
                   /\ session' = SessionAdd(session, outcome)
                   /\ count' = CountAfter(outcome.tag, count)
                   /\ skipped' = SkippedAfter(outcome.tag, skipped)
                   /\ staged_from' = IF outcome.tag = "OK"
                                     THEN Append(staged_from, pos)
                                     ELSE staged_from
    /\ UNCHANGED << inputs, summary, wallets, transactions, run, valid_user_ids,
                    wallet_count, txn_count, user_queries, before, commits, prev >>

\* The end of wallets.txt: commit, or roll back when the commit raises;
\* return count.
WalletsCommit ==
    /\ pc = "WalletsLoop"
    /\ pos > Len(wallet_file.lines)
    /\ \E ok \in BOOLEAN :
          LET result == WalletsCommitResult(Tables, session, ok)
          IN  /\ wallets' = result.wallets
              /\ transactions' = result.transactions
              /\ session' = result.session
              /\ wallet_count' = ReturnCount(count, ok)
              /\ log' = IF ok THEN "COMMIT_OK" ELSE "COMMIT_ERROR"
              /\ commits' = [commits EXCEPT !.wallets = IF ok THEN "ok" ELSE "failed"]
    /\ pc' = "WalletsDone"
    /\ UNCHANGED << inputs, summary, run, pos, locals, txn_count, user_queries,
                    staged_from, before, prev >>

\* migrate_transactions, transactions.txt absent: return 0.
MigrateTransactionsMissing ==
    /\ pc = "WalletsDone"
    /\ ~txn_file.exists
    /\ txn_count' = 0
    /\ pc' = "TransactionsDone"
    /\ log' = "SKIP_FILE"
    /\ before' = Tables
    /\ UNCHANGED << inputs, summary, wallets, transactions, session, run,
                    pos, locals,
                    wallet_count, user_queries, staged_from, commits, prev >>

\* migrate_transactions up to the loop.
MigrateTransactionsOpen ==
    /\ pc = "WalletsDone"
    /\ txn_file.exists
    /\ count' = 0
    /\ skipped' = 0
    /\ valid_user_ids' = Users
    /\ user_queries' = user_queries + 1
    /\ pos' = 1
    /\ pc' = "TransactionsLoop"
    /\ log' = "MIGRATING"
    /\ staged_from' = << >>
    /\ before' = Tables
    /\ UNCHANGED << inputs, summary, wallets, transactions, session, run,
                    wallet_count,
                    txn_count, commits, prev >>

\* One line of transactions.txt.
TransactionLine ==
    /\ pc = "TransactionsLoop"
    /\ pos <= Len(txn_file.lines)
    /\ LET outcome == TxnOutcome(txn_file.lines[pos], valid_user_ids,
                                 QueryView(transactions, "transactions", session), UtcNow)
       IN  /\ log' = outcome.tag
           /\ IF outcome.tag = "RAISE"
              THEN /\ pc' = "Crashed"
                   /\ session' = << >>
                   /\ UNCHANGED << pos, count, skipped, staged_from >>
              ELSE /\ pc' = pc
                   /\ pos' = pos + 1
                   /\ session' = SessionAdd(session, outcome)
                   /\ count' = CountAfter(outcome.tag, count)
                   /\ skipped' = SkippedAfter(outcome.tag, skipped)
                   /\ staged_from' = IF outcome.tag = "OK"
                                     THEN Append(staged_from, pos)
                                     ELSE staged_from
    /\ UNCHANGED << inputs, summary, wallets, transactions, run, valid_user_ids,
                    wallet_count, txn_count, user_queries, before, commits, prev >>

\* The end of transactions.txt: commit or roll back; return count.
TransactionsCommit ==
    /\ pc = "TransactionsLoop"
    /\ pos > Len(txn_file.lines)
    /\ \E ok \in BOOLEAN :
          LET result == TransactionsCommitResult(Tables, session, ok)
          IN  /\ wallets' = result.wallets
              /\ transactions' = result.transactions
              /\ session' = result.session
              /\ txn_count' = ReturnCount(count, ok)
              /\ log' = IF ok THEN "COMMIT_OK" ELSE "COMMIT_ERROR"
              /\ commits' = [commits EXCEPT !.transactions = IF ok THEN "ok" ELSE "failed"]
    /\ pc' = "TransactionsDone"
    /\ UNCHANGED << inputs, summary, run, pos, locals, wallet_count,
                    user_queries,
                    staged_from, before, prev >>

\* The summary block.
Report ==
    /\ pc = "TransactionsDone"
    /\ pc' = "Reported"
    /\ log' = "SUMMARY"
    /\ summary' = << wallet_count, txn_count >>
    /\ UNCHANGED << wallet_file, txn_file, wallets, transactions, session, run,
                    pos, locals, wallet_count, txn_count, user_queries, history >>

\* The operator runs the script again, over the same files.
Rerun ==
    /\ pc \in {"Reported", "Crashed"}
    /\ run < MaxRuns
    /\ run' = run + 1
    /\ pc' = "Start"
    /\ pos' = 0
    /\ valid_user_ids' = {}
    /\ count' = Unassigned
    /\ skipped' = Unassigned
    /\ wallet_count' = Unassigned
    /\ txn_count' = Unassigned
    /\ log' = "none"
    /\ summary' = << >>
    /\ user_queries' = 0
    /\ staged_from' = << >>
    /\ before' = Tables
    /\ commits' = NoCommits
    /\ prev' = [clean |-> /\ pc = "Reported"
                          /\ commits.wallets # "failed"
                          /\ commits.transactions # "failed",
                committed |-> /\ commits.wallets # "failed"
                              /\ commits.transactions # "failed",
                wallets |-> wallets, transactions |-> transactions]
    /\ UNCHANGED << wallet_file, txn_file, wallets, transactions, session >>

Next ==
    \/ CreateAll
    \/ MigrateWalletsMissing
    \/ MigrateWalletsOpen
    \/ WalletLine
    \/ WalletsCommit
    \/ MigrateTransactionsMissing
    \/ MigrateTransactionsOpen
    \/ TransactionLine
    \/ TransactionsCommit
    \/ Report
    \/ Rerun

Spec == Init /\ [][Next]_vars

----------------------------------------------------------------------------
\* Vocabulary of the properties.

Range(seq) == {seq[i] : i \in 1..Len(seq)}

InWalletPhase ==
    pc = "WalletsLoop" \/ (pc = "Crashed" /\ wallet_count = Unassigned)

InTransactionPhase ==
    \/ pc \in {"TransactionsLoop", "TransactionsDone", "Reported"}
    \/ (pc = "Crashed" /\ wallet_count # Unassigned)

\* The lines of the file the running (or crashed) loop reads.
LoopLines ==
    IF InWalletPhase THEN wallet_file.lines ELSE txn_file.lines

UserIdOf(line) == PyInt(DictGet(line.user_id, Num(0)))

\* A record whose user id is an integer that is not a loaded user id.
Referential(line) ==
    /\ line.kind = "object"
    /\ UserIdOf(line).exc = "none"
    /\ UserIdOf(line).val \notin valid_user_ids

\* A line that is not JSON, or whose user_id, balance or amount cannot be
\* coerced.
BadWalletLine(line) ==
    \/ line.kind = "garbage"
    \/ /\ line.kind = "object"
       /\ \/ UserIdOf(line).exc # "none"
          \/ PyFloat(DictGet(line.balance, Dec(0))).exc # "none"

BadTxnLine(line) ==
    \/ line.kind = "garbage"
    \/ /\ line.kind = "object"
       /\ \/ UserIdOf(line).exc # "none"
          \/ PyFloat(DictGet(line.amount, Num(0))).exc # "none"

\* A transaction record with an existing user and a usable amount.
TxnImportable(line) ==
    /\ line.kind = "object"
    /\ UserIdOf(line).exc = "none"
    /\ UserIdOf(line).val \in valid_user_ids
    /\ PyFloat(DictGet(line.amount, Num(0))).exc = "none"

PairOf(line) == << DictGet(line.id, Empty), UserIdOf(line).val >>

PairIn(rows, pair) ==
    \E i \in 1..Len(rows) : << rows[i].transaction_id, rows[i].user_id >> = pair

\* The timestamp a field must get: its instant when it is an ISO-8601
\* string, the import time otherwise.
ExpectedTs(v) == IF v.k = "isostr" THEN v.n ELSE UtcNow

TsValues ==
    {Absent, Null, Empty, Num(5), Text(1), IsoStr(11)}

----------------------------------------------------------------------------
\* C1: when the run before this one went through to its summary with both
\* commits successful, this run stages nothing, returns 0 and 0, and leaves
\* both tables exactly as that run left them.  The tables are also left as
\* they were when the run before only had no failed commit.
C1_IdempotentRerun ==
    /\ (run > 1 /\ prev.clean) =>
          /\ session = << >>
          /\ count \in {Unassigned, 0}
          /\ wallet_count \in {Unassigned, 0}
          /\ txn_count \in {Unassigned, 0}
    /\ (run > 1 /\ prev.committed) =>
          /\ wallets = prev.wallets
          /\ transactions = prev.transactions

C1_Witness ==
    /\ run = 2 /\ prev.clean /\ pc = "Reported"
    /\ wallet_file.exists /\ txn_file.exists
    /\ wallet_count = 0 /\ txn_count = 0
    /\ \E i \in 1..Len(wallets) : wallets[i].created_at >= ImportEpoch
    /\ \E i \in 1..Len(transactions) : transactions[i].timestamp >= ImportEpoch

C4_ReferentialSkip ==
    /\ pc \in {"WalletsLoop", "TransactionsLoop"} =>
          /\ skipped = Cardinality({k \in 1..(pos - 1) : Referential(LoopLines[k])})
          /\ \A k \in Range(staged_from) : ~Referential(LoopLines[k])
          /\ count = Len(staged_from)
          /\ Len(session) = count
    /\ \A i \in 1..Len(wallets) : wallets[i].user_id \in Users
    /\ \A i \in 1..Len(transactions) : transactions[i].user_id \in Users
    /\ \A i \in 1..Len(session) : session[i].user_id \in Users

C4_Witness ==
    /\ pc = "WalletsLoop"
    /\ pos = 4
    /\ skipped = 1
    /\ count = 1
    /\ \E k \in 1..3 : BadWalletLine(wallet_file.lines[k])

\* C5: no line that is malformed JSON, or whose user_id, balance or amount
\* fails coercion, ends the sub-procedure.
C5_BadLineDoesNotAbort ==
    pc = "Crashed" =>
        ~(IF InWalletPhase THEN BadWalletLine(LoopLines[pos])
                           ELSE BadTxnLine(LoopLines[pos]))

\* C6: after a failed commit the sub-procedure has returned, the session is
\* empty and both tables are what they were when the sub-procedure began.
C6_CommitFailureRollsBack ==
    log = "COMMIT_ERROR" =>
        /\ pc \in {"WalletsDone", "TransactionsDone"}
        /\ session = << >>
        /\ wallets = before.wallets
        /\ transactions = before.transactions

C6_Witness ==
    /\ log = "COMMIT_ERROR"
    /\ pc = "WalletsDone"
    /\ wallet_count >= 1
    /\ Len(wallets) >= 1

\* C7: wallets run first and commit on their own: the transaction phase
\* leaves the wallets table as it found it, and after a successful wallet
\* commit and a failed transaction commit the wallets table has grown by the
\* wallets staged in this run and the transactions table has not changed.
C7_IndependentCommits ==
    /\ InWalletPhase => txn_count = Unassigned
    /\ InTransactionPhase =>
          /\ wallet_count # Unassigned
          /\ wallets = before.wallets
    /\ (commits.wallets = "ok" /\ commits.transactions = "failed") =>
          /\ Len(wallets) = Len(prev.wallets) + wallet_count
          /\ SubSeq(wallets, 1, Len(prev.wallets)) = prev.wallets
          /\ transactions = prev.transactions

C7_Witness ==
    /\ pc = "Reported"
    /\ commits.wallets = "ok" /\ commits.transactions = "failed"
    /\ wallet_count >= 1 /\ txn_count >= 1
    /\ Len(wallets) = Len(prev.wallets) + 1

\* C8: a sub-procedure whose file is absent returns 0 without reading the
\* users or changing a table, and the job then goes on to its summary.
C8_MissingFileSkipped ==
    /\ (pc = "WalletsDone" /\ ~wallet_file.exists) =>
          /\ wallet_count = 0 /\ user_queries = 0
          /\ session = << >> /\ Tables = before
    /\ (pc = "TransactionsDone" /\ ~txn_file.exists) =>
          /\ txn_count = 0 /\ user_queries = (IF wallet_file.exists THEN 1 ELSE 0)
          /\ session = << >> /\ Tables = before
    /\ (~wallet_file.exists /\ wallet_count # Unassigned) => pc # "Crashed"

\* C9: each timestamp of a staged row is the instant of its own field when
\* that field is an ISO-8601 string, and the import time otherwise; whatever
\* the timestamp fields of the line being read are changed to, the line is
\* staged or not as before and the other fields of its row stay the same.
C9_PerFieldTimestamp ==
    /\ pc = "WalletsLoop" =>
          /\ \A k \in 1..Len(session) :
                LET line == wallet_file.lines[staged_from[k]]
                IN  /\ session[k].created_at = ExpectedTs(line.created_at)
                    /\ session[k].last_updated = ExpectedTs(line.last_updated)
          /\ pos <= Len(wallet_file.lines) =>
                LET line == wallet_file.lines[pos]
                    view == QueryView(wallets, "wallets", session)
                    plain == WalletOutcome(
                                 [line EXCEPT !.created_at = Absent,
                                              !.last_updated = Absent],
                                 valid_user_ids, view, UtcNow)
                IN  \A c, l \in TsValues :
                        LET o == WalletOutcome(
                                     [line EXCEPT !.created_at = c,
                                                  !.last_updated = l],
                                     valid_user_ids, view, UtcNow)
                        IN  /\ o.tag = plain.tag
                            /\ o.tag = "OK" =>
                                  o.row = [plain.row EXCEPT
                                               !.created_at = ExpectedTs(c),
                                               !.last_updated = ExpectedTs(l)]
    /\ pc = "TransactionsLoop" =>
          /\ \A k \in 1..Len(session) :
                session[k].timestamp =
                    ExpectedTs(txn_file.lines[staged_from[k]].timestamp)
          /\ pos <= Len(txn_file.lines) =>
                LET line == txn_file.lines[pos]
                    view == QueryView(transactions, "transactions", session)
                    plain == TxnOutcome([line EXCEPT !.timestamp = Absent],
                                        valid_user_ids, view, UtcNow)
                IN  \A t \in TsValues :
                        LET o == TxnOutcome([line EXCEPT !.timestamp = t],
                                            valid_user_ids, view, UtcNow)
                        IN  /\ o.tag = plain.tag
                            /\ o.tag = "OK" =>
                                  o.row = [plain.row EXCEPT
                                               !.timestamp = ExpectedTs(t)]

C9_Witness ==
    /\ pc = "WalletsLoop"
    /\ \E k \in 1..Len(session) :
          /\ wallet_file.lines[staged_from[k]].created_at.k = "isostr"
          /\ wallet_file.lines[staged_from[k]].last_updated.k = "text"
          /\ session[k].created_at = wallet_file.lines[staged_from[k]].created_at.n
          /\ session[k].last_updated = UtcNow

\* C10: the count a sub-procedure returns, and the summary prints, is the
\* number of records it staged: the number of rows its table gained when the
\* commit succeeded, and still that number when the commit failed and the
\* table gained none.
C10_CountIsStaged ==
    /\ (pc = "WalletsDone" /\ commits.wallets # "none") =>
          /\ wallet_count = Len(staged_from)
          /\ commits.wallets = "ok" =>
                Len(wallets) = Len(before.wallets) + wallet_count
          /\ commits.wallets = "failed" => wallets = before.wallets
    /\ (pc = "TransactionsDone" /\ commits.transactions # "none") =>
          /\ txn_count = Len(staged_from)
          /\ commits.transactions = "ok" =>
                Len(transactions) = Len(before.transactions) + txn_count
          /\ commits.transactions = "failed" =>
                transactions = before.transactions
    /\ pc = "Reported" =>
          /\ summary = << wallet_count, txn_count >>
          /\ commits.wallets = "ok" =>
                Len(wallets) = Len(prev.wallets) + summary[1]
          /\ commits.wallets = "failed" => wallets = prev.wallets
          /\ commits.transactions = "ok" =>
                Len(transactions) = Len(prev.transactions) + summary[2]
          /\ commits.transactions = "failed" => transactions = prev.transactions

C10_Witness ==
    /\ pc = "TransactionsDone"
    /\ commits.transactions = "failed"
    /\ txn_count = 2
    /\ transactions = before.transactions

====
